---- MODULE Spec2Model ----
(***************************************************************************)
(* tinyDVR (src/tinyDVR.py): a supervisor that keeps one ffmpeg capture    *)
(* subprocess alive, bounds the size of its output directory and publishes *)
(* status.json.                                                            *)
(*                                                                         *)
(* Units: time is counted in whole seconds, file sizes in MiB (so that     *)
(* 10 GiB fits TLC's integers).  Python's None is the empty sequence, a    *)
(* present value v is <<v>>.                                               *)
(*                                                                         *)
(* Time: the clock never goes back and advances while main sleeps; a       *)
(* sleep of d seconds ends d .. d + MaxJitter seconds later.  On whole     *)
(* seconds round(x, 1) of line 315 returns x.                              *)
(*                                                                         *)
(* Spec follows main with enforce_storage_cap as one step per tick, under *)
(* termination signals and removal of the directory, with an ffmpeg that   *)
(* writes no diagnostics; SpecReclaim follows enforce_storage_cap          *)
(* statement by statement, with other actors changing the directory in     *)
(* between; SpecCapture and SpecLive follow main over a longer stretch of  *)
(* time with no signals, with an ffmpeg that fills its stderr pipe.        *)
(***************************************************************************)
EXTENDS Integers, Sequences, FiniteSets, TLC

\* ---------------------------------------------------------------- bounds
MaxFiles == 3        \* files in a drawn initial directory
MaxMtime == 2        \* modification times of drawn files are 1..MaxMtime
MaxEnvSteps == 1     \* directory changes by other actors during the calls
MaxClock == 58       \* the clock stops main's sleeps beyond this second
MaxJitter == 0       \* seconds a sleep may overshoot
MaxLaunch == 2       \* ffmpeg processes launched
MaxSignals == 2      \* termination signals delivered
MaxDirFiles == 2     \* segment files in OUTPUT_DIR while main runs
MaxPipe == 2         \* lines of diagnostics the stderr pipe holds unread

\* ------------------------------------------------- configuration (l.47-60)
MAX_STORAGE_GB == 10
CHECK_EVERY_SECONDS == 10
NO_PROGRESS_TIMEOUT_SECONDS == 45
RESTART_BACKOFF_SECONDS == 5

None == <<>>
Some(v) == <<v>>

\* bytes_from_gb, in MiB
bytes_from_gb(gb) == gb * 1024

max_bytes == bytes_from_gb(MAX_STORAGE_GB)

\* sizes of the segment files a drawn directory holds (MiB)
Sizes == {5120, 6144}

\* sizes of the segments the capture process writes (MiB)
SegmentSizes == {6144}

VARIABLES
  dir,        \* the .mp4 entries of OUTPUT_DIR in os.listdir order:
              \* a sequence of [name, mtime, size]
  rpc,        \* position inside enforce_storage_cap: idle, list, loop, done
  files,      \* enforce_storage_cap: local files
  total,      \* enforce_storage_cap: local total
  ndeleted,   \* enforce_storage_cap: local deleted
  listed,     \* history: the listing this pass started from
  removed,    \* history: names this pass removed from disk, in order
  err,        \* history: some delete failed with an error other than
              \* FileNotFoundError
  interf,     \* history: number of directory changes by other actors
  passNo,     \* history: number of the current call
  dirExists,  \* OUTPUT_DIR exists
  clock,      \* the wall clock read by time.time() and datetime.now()
  pc,         \* main: position of the main thread
  hstack,     \* the shutdown handlers entered, innermost (the running one) last
  handlers,   \* signals for which signal.signal installed shutdown
  sigCount,   \* history: termination signals delivered so far
  sigSeen,    \* history: a signal was delivered after the first launch
  exitStatus, \* None while the supervisor runs, else its exit status
  children,   \* every ffmpeg process launched: [alive, polled, term, kill,
              \* pipe, blocked, since]; pipe counts the lines waiting
              \* in its stderr pipe, blocked says it is stuck in a write
              \* to it, since (history) is the clock at which it got stuck
  proc,       \* main: the variable proc (index into children, 0 = unbound)
  last_ok_time,
  newest_mtime,
  now,
  healthy,
  reason,
  deleted,
  folder_bytes,
  status,     \* the dict handed to write_status
  wsret,      \* where the running write_status returns to
  tmpFile,    \* status.json.tmp: None or [rec, st]
  finalFile,  \* status.json: None or [rec, st]
  lastPub,    \* history: the last record os.replace published
  detectedAt, \* history: clock at which the pending exit was detected
  tickDir,    \* history: what the directory has been since this tick's
              \* health check: "files", "empty" or "absent"
  tickPass,   \* history: None until this tick's call of enforce_storage_cap,
              \* then [n, kept, measured]: the count the pass returned,
              \* whether a segment with the tick's newest_mtime was on
              \* disk when it returned, and whether folder_size_bytes
              \* has been read since
  dryTicks    \* history: ticks in a row that found the process exited and
              \* the directory above max_bytes, no pass in between

rlocal == <<rpc, files, total, ndeleted, listed, removed, err, interf, passNo>>
mvars == <<dirExists, clock, pc, hstack, handlers, sigCount, sigSeen, exitStatus,
           children, proc, last_ok_time, newest_mtime, now, healthy, reason,
           deleted, folder_bytes, status, wsret, tmpFile, finalFile, lastPub,
           detectedAt, tickDir, tickPass, dryTicks>>
vars == <<dir, rlocal, mvars>>

\* ------------------------------------------------------------- helpers
RECURSIVE SumSizes(_)
SumSizes(s) == IF s = <<>> THEN 0 ELSE s[1].size + SumSizes(Tail(s))

Names(s) == {s[i].name : i \in 1..Len(s)}

RECURSIVE Without(_, _)
Without(s, n) ==
  IF s = <<>> THEN <<>>
  ELSE IF s[1].name = n THEN Without(Tail(s), n)
       ELSE <<s[1]>> \o Without(Tail(s), n)

\* position at which x goes into the sorted sequence s: after every element
\* whose key is <= x's key (list.sort is stable)
RECURSIVE InsertByMtime(_, _)
InsertByMtime(x, s) ==
  IF s = <<>> THEN <<x>>
  ELSE IF s[Len(s)].mtime <= x.mtime THEN Append(s, x)
       ELSE Append(InsertByMtime(x, SubSeq(s, 1, Len(s) - 1)), s[Len(s)])

RECURSIVE SortNewestFirst(_)
SortNewestFirst(s) ==
  IF s = <<>> THEN <<>>
  ELSE LET r == SortNewestFirst(SubSeq(s, 1, Len(s) - 1))
           x == s[Len(s)]
           k == Cardinality({i \in 1..Len(r) : r[i].mtime >= x.mtime})
       IN SubSeq(r, 1, k) \o <<x>> \o SubSeq(r, k + 1, Len(r))

\* files.sort(key=lambda x: x[1])
RECURSIVE SortByMtime(_)
SortByMtime(s) ==
  IF s = <<>> THEN <<>>
  ELSE InsertByMtime(s[Len(s)], SortByMtime(SubSeq(s, 1, Len(s) - 1)))

\* list_recording_files: the entries of the directory, oldest first; an
\* absent directory lists as empty (dir is then <<>>)
list_recording_files(d) == SortByMtime(d)

folder_size_bytes(d) == SumSizes(list_recording_files(d))

newest_recording_mtime(d) ==
  LET fs == list_recording_files(d)
  IN IF fs = <<>> THEN None ELSE Some(fs[Len(fs)].mtime)

\* ------------------------------------------------ enforce_storage_cap
LoopCondGe(t, fs) == t >= max_bytes /\ fs # <<>>

\* while total > max_bytes and files
LoopCond(t, fs) == t > max_bytes /\ fs # <<>>

\* lines 121-123
CapList ==
  /\ rpc = "list"
  /\ files' = list_recording_files(dir)
  /\ total' = SumSizes(files')
  /\ ndeleted' = 0
  /\ listed' = files'
  /\ removed' = <<>>
  /\ rpc' = "loop"
  /\ UNCHANGED <<mvars, dir, err, interf, passNo>>

\* lines 126-131: os.remove succeeds
CapRemoveOk ==
  /\ rpc = "loop"
  /\ LoopCond(total, files)
  /\ LET p == Head(files) IN
       /\ p.name \in Names(dir)
       /\ dir' = Without(dir, p.name)
       /\ files' = Tail(files)
       /\ ndeleted' = ndeleted + 1
       /\ total' = total - p.size
       /\ removed' = Append(removed, p.name)
  /\ UNCHANGED <<mvars, rpc, listed, err, interf, passNo>>

\* lines 126-128, 132-133: the file is already gone
CapRemoveGone ==
  /\ rpc = "loop"
  /\ LoopCond(total, files)
  /\ Head(files).name \notin Names(dir)
  /\ files' = Tail(files)
  /\ UNCHANGED <<mvars, dir, rpc, total, ndeleted, listed, removed, err, interf, passNo>>

CapRemoveErrorContinues ==
  /\ rpc = "loop"
  /\ LoopCond(total, files)
  /\ Head(files).name \in Names(dir)
  /\ files' = Tail(files)
  /\ err' = TRUE
  /\ UNCHANGED <<mvars, dir, rpc, total, ndeleted, listed, removed, interf, passNo>>

\* lines 126-128, 134-136: any other error ends the loop
CapRemoveError ==
  /\ rpc = "loop"
  /\ LoopCond(total, files)
  /\ Head(files).name \in Names(dir)
  /\ files' = Tail(files)
  /\ err' = TRUE
  /\ rpc' = "done"
  /\ UNCHANGED <<mvars, dir, total, ndeleted, listed, removed, interf, passNo>>

\* line 138
CapReturn ==
  /\ rpc = "loop"
  /\ ~LoopCond(total, files)
  /\ rpc' = "done"
  /\ UNCHANGED <<mvars, dir, files, total, ndeleted, listed, removed, err, interf, passNo>>

\* the caller calls a second time (main calls once per tick, line 291)
CapCallAgain ==
  /\ rpc = "done"
  /\ passNo < 2
  /\ passNo' = passNo + 1
  /\ rpc' = "list"
  /\ UNCHANGED <<mvars, dir, files, total, ndeleted, listed, removed, err, interf>>

\* another actor removes a segment file
OtherRemove ==
  /\ rpc \in {"loop", "done"}
  /\ interf < MaxEnvSteps
  /\ \E i \in 1..Len(dir) : dir' = Without(dir, dir[i].name)
  /\ interf' = interf + 1
  /\ UNCHANGED <<mvars, rpc, files, total, ndeleted, listed, removed, err, passNo>>

\* a name and a modification time later than any drawn or listed
NewName == 7 + MaxFiles + interf
NewMtime == 7 + MaxMtime

\* the capture process starts a new segment file
OtherAdd ==
  /\ rpc \in {"loop", "done"}
  /\ interf < MaxEnvSteps
  /\ \E sz \in SegmentSizes :
       dir' = Append(dir, [name |-> NewName, mtime |-> NewMtime, size |-> sz])
  /\ interf' = interf + 1
  /\ UNCHANGED <<mvars, rpc, files, total, ndeleted, listed, removed, err, passNo>>

\* =====================================================================
\* main: the supervisor loop, its signal handler, write_status, and the
\* processes around it
\* =====================================================================

Running == exitStatus = None
InMain == Running /\ hstack = <<>>

Alive == {i \in 1..Len(children) : children[i].alive}

\* the clock at which main starts: the drawn files, modified at
\* 1..MaxMtime, are then close to NO_PROGRESS_TIMEOUT_SECONDS old at the
\* first tick
StartClock == NO_PROGRESS_TIMEOUT_SECONDS - CHECK_EVERY_SECONDS + 2

DeathRecord(tail) ==
  [recording |-> FALSE,
   reason |-> "ffmpeg_exited",
   timestamp |-> clock,
   ffmpeg_pid |-> None,
   ffmpeg_stderr_tail |-> tail]

TickRecord(cpu, mem) ==
  [recording |-> healthy,
   reason |-> reason,
   timestamp |-> clock,
   rtsp_transport |-> "tcp",
   segment_seconds |-> 60,
   max_storage_gb |-> MAX_STORAGE_GB,
   output_dir |-> "recordings",
   folder_size_bytes |-> folder_bytes,
   newest_segment_mtime |-> newest_mtime,
   seconds_since_last_ok |-> now - last_ok_time,
   ffmpeg_pid |-> Some(proc),
   ffmpeg_cpu_percent |-> cpu,
   ffmpeg_mem_mb |-> mem,
   deleted_files_this_check |-> deleted]

\* ------------------------------------------------------- the environment
\* an ffmpeg process exits: on its own while it runs, or after SIGTERM /
\* SIGKILL; one stuck in a write to its stderr pipe does not get to exit
\* on its own
ChildExit ==
  /\ \E i \in Alive :
       /\ ~children[i].blocked \/ children[i].term \/ children[i].kill
       /\ children' = [children EXCEPT ![i].alive = FALSE]
  /\ UNCHANGED <<dir, rlocal, dirExists, clock, pc, hstack, handlers, sigCount,
                 sigSeen, exitStatus, proc, last_ok_time, newest_mtime, now,
                 healthy, reason, deleted, folder_bytes, status, wsret, tmpFile,
                 finalFile, lastPub, detectedAt, tickDir, tickPass, dryTicks>>

\* a live ffmpeg process that is not stuck starts the segment file named
\* after the current second (line 160: %Y-%m-%d_%H-%M-%S.mp4)
ChildWrite ==
  /\ \E i \in Alive : ~children[i].blocked
  /\ dirExists
  /\ Len(dir) < MaxDirFiles
  /\ clock \notin Names(dir)
  /\ \E sz \in SegmentSizes :
       dir' = Append(dir, [name |-> clock, mtime |-> clock, size |-> sz])
  /\ tickDir' = "files"
  /\ UNCHANGED <<rlocal, dirExists, clock, pc, hstack, handlers, sigCount, sigSeen,
                 exitStatus, children, proc, last_ok_time, newest_mtime, now,
                 healthy, reason, deleted, folder_bytes, status, wsret, tmpFile,
                 finalFile, lastPub, detectedAt, tickPass, dryTicks>>

\* the operator removes OUTPUT_DIR with everything in it
RemoveDir ==
  /\ dirExists
  /\ pc # "start"
  /\ dirExists' = FALSE
  /\ dir' = <<>>
  /\ tmpFile' = None
  /\ finalFile' = None
  /\ tickDir' = IF tickDir = "empty" THEN "absent" ELSE tickDir
  /\ UNCHANGED <<rlocal, clock, pc, hstack, handlers, sigCount, sigSeen, exitStatus,
                 children, proc, last_ok_time, newest_mtime, now, healthy, reason,
                 deleted, folder_bytes, status, wsret, lastPub, detectedAt,
                 tickPass, dryTicks>>

\* a live ffmpeg process writes a line of diagnostics (-loglevel warning,
\* line 165) to its stderr, a pipe (stderr=subprocess.PIPE, lines 227 and
\* 271) of bounded capacity: the write goes through while there is room and
\* blocks the process when the pipe is full
ChildEmit ==
  /\ \E i \in Alive :
       /\ ~children[i].blocked
       /\ children' = IF children[i].pipe < MaxPipe
                      THEN [children EXCEPT ![i].pipe = @ + 1]
                      ELSE [children EXCEPT ![i].blocked = TRUE, ![i].since = clock]
  /\ UNCHANGED <<dir, rlocal, dirExists, clock, pc, hstack, handlers, sigCount,
                 sigSeen, exitStatus, proc, last_ok_time, newest_mtime, now,
                 healthy, reason, deleted, folder_bytes, status, wsret, tmpFile,
                 finalFile, lastPub, detectedAt, tickDir, tickPass, dryTicks>>

\* SIGINT or SIGTERM reaches the supervisor.  With shutdown installed for
\* it the handler starts on top of whatever the main thread or an earlier
\* handler is doing; an interrupted handler never resumes, since shutdown
\* always leaves through sys.exit, so its frame is kept as "suspended".
\* Otherwise the default disposition ends the process (KeyboardInterrupt
\* for SIGINT: status 130; SIGTERM: status 143).
Signal ==
  /\ Running
  /\ sigCount < MaxSignals
  /\ sigCount' = sigCount + 1
  /\ sigSeen' = (sigSeen \/ children # <<>>)
  /\ \E sig \in {"SIGINT", "SIGTERM"} :
       IF sig \in handlers
       THEN /\ hstack' = Append([i \in 1..Len(hstack) |-> "suspended"], "h_terminate")
            /\ UNCHANGED exitStatus
       ELSE /\ exitStatus' = Some(IF sig = "SIGINT" THEN 130 ELSE 143)
            /\ hstack' = <<>>
  /\ UNCHANGED <<dir, rlocal, dirExists, clock, pc, handlers, children, proc,
                 last_ok_time, newest_mtime, now, healthy, reason, deleted,
                 folder_bytes, status, wsret, tmpFile, finalFile, lastPub,
                 detectedAt, tickDir, tickPass, dryTicks>>

\* ------------------------------------------------------ shutdown (234-243)
HTop == hstack[Len(hstack)]
HGoto(p) == hstack' = [hstack EXCEPT ![Len(hstack)] = p]

hunch == <<dir, rlocal, dirExists, clock, pc, handlers, sigCount, sigSeen, proc,
           last_ok_time, newest_mtime, now, healthy, reason, deleted, folder_bytes,
           status, wsret, tmpFile, finalFile, lastPub, detectedAt, tickDir,
           tickPass, dryTicks>>

\* line 237: proc.terminate() signals the process bound to proc unless its
\* exit is already known
HTerminate ==
  /\ Running /\ hstack # <<>> /\ HTop = "h_terminate"
  /\ children' = IF children[proc].alive
                 THEN [children EXCEPT ![proc].term = TRUE]
                 ELSE children
  /\ HGoto("h_wait")
  /\ UNCHANGED <<hunch, exitStatus>>

\* line 239: proc.wait(timeout=5) returns, the process has exited
HWaitReturns ==
  /\ Running /\ hstack # <<>> /\ HTop = "h_wait"
  /\ ~children[proc].alive
  /\ HGoto("h_exit")
  /\ UNCHANGED <<hunch, exitStatus, children>>

\* lines 239-240: the timeout expires with the process still alive
HWaitTimeout ==
  /\ Running /\ hstack # <<>> /\ HTop = "h_wait"
  /\ children[proc].alive
  /\ HGoto("h_kill")
  /\ UNCHANGED <<hunch, exitStatus, children>>

\* line 241: proc.kill()
HKill ==
  /\ Running /\ hstack # <<>> /\ HTop = "h_kill"
  /\ children' = IF children[proc].alive
                 THEN [children EXCEPT ![proc].kill = TRUE]
                 ELSE children
  /\ HGoto("h_exit")
  /\ UNCHANGED <<hunch, exitStatus>>

\* line 243: sys.exit(0); SystemExit unwinds every frame below
HExit ==
  /\ Running /\ hstack # <<>> /\ HTop = "h_exit"
  /\ exitStatus' = Some(0)
  /\ hstack' = <<>>
  /\ UNCHANGED <<hunch, children>>

\* ----------------------------------------------------------- main thread
\* lines 215-222
Start ==
  /\ InMain /\ pc = "start"
  /\ dirExists' = TRUE
  /\ pc' = "popen"
  /\ UNCHANGED <<dir, rlocal, clock, hstack, handlers, sigCount, sigSeen, exitStatus,
                 children, proc, last_ok_time, newest_mtime, now, healthy, reason,
                 deleted, folder_bytes, status, wsret, tmpFile, finalFile, lastPub,
                 detectedAt, tickDir, tickPass, dryTicks>>

\* lines 224-230 and 268-274: subprocess.Popen has started the child; its
\* result is not yet bound to proc
PopenForkUpTo(limit) ==
  /\ InMain /\ pc \in {"popen", "relaunch"}
  /\ Len(children) < limit
  /\ children' = Append(children,
                        [alive |-> TRUE, polled |-> FALSE, term |-> FALSE, kill |-> FALSE,
                         pipe |-> 0, blocked |-> FALSE, since |-> 0])
  /\ pc' = IF pc = "popen" THEN "bind_first" ELSE "bind_again"
  /\ detectedAt' = None
  /\ UNCHANGED <<dir, rlocal, dirExists, clock, hstack, handlers, sigCount, sigSeen,
                 exitStatus, proc, last_ok_time, newest_mtime, now, healthy, reason,
                 deleted, folder_bytes, status, wsret, tmpFile, finalFile, lastPub,
                 tickDir, tickPass, dryTicks>>

PopenFork == PopenForkUpTo(MaxLaunch)

\* the same with room for one launch more
PopenForkLive == PopenForkUpTo(MaxLaunch + 1)

\* lines 224 and 268: proc = <the new Popen>
PopenBind ==
  /\ InMain /\ pc \in {"bind_first", "bind_again"}
  /\ proc' = Len(children)
  /\ pc' = IF pc = "bind_first" THEN "first_ok" ELSE "reset_ok"
  /\ UNCHANGED <<dir, rlocal, dirExists, clock, hstack, handlers, sigCount, sigSeen,
                 exitStatus, children, last_ok_time, newest_mtime, now, healthy,
                 reason, deleted, folder_bytes, status, wsret, tmpFile, finalFile,
                 lastPub, detectedAt, tickDir, tickPass, dryTicks>>

SetLastOkNow ==
  /\ InMain /\ pc \in {"first_ok", "reset_ok"}
  /\ last_ok_time' = now
  /\ pc' = IF pc = "first_ok" THEN "sigint" ELSE "sleep"
  /\ UNCHANGED <<dir, rlocal, dirExists, clock, hstack, handlers, sigCount, sigSeen,
                 exitStatus, children, proc, newest_mtime, now, healthy, reason,
                 deleted, folder_bytes, status, wsret, tmpFile, finalFile, lastPub,
                 detectedAt, tickDir, tickPass, dryTicks>>

\* lines 232 and 275-277: last_ok_time = time.time()
SetLastOk ==
  /\ InMain /\ pc \in {"first_ok", "reset_ok"}
  /\ last_ok_time' = clock
  /\ pc' = IF pc = "first_ok" THEN "sigint" ELSE "sleep"
  /\ UNCHANGED <<dir, rlocal, dirExists, clock, hstack, handlers, sigCount, sigSeen,
                 exitStatus, children, proc, newest_mtime, now, healthy, reason,
                 deleted, folder_bytes, status, wsret, tmpFile, finalFile, lastPub,
                 detectedAt, tickDir, tickPass, dryTicks>>

\* lines 245, 246
InstallHandler ==
  /\ InMain /\ pc \in {"sigint", "sigterm"}
  /\ handlers' = handlers \cup {IF pc = "sigint" THEN "SIGINT" ELSE "SIGTERM"}
  /\ pc' = IF pc = "sigint" THEN "sigterm" ELSE "sleep"
  /\ UNCHANGED <<dir, rlocal, dirExists, clock, hstack, sigCount, sigSeen, exitStatus,
                 children, proc, last_ok_time, newest_mtime, now, healthy, reason,
                 deleted, folder_bytes, status, wsret, tmpFile, finalFile, lastPub,
                 detectedAt, tickDir, tickPass, dryTicks>>

\* time.sleep(d) returns after at least d seconds
Sleep(d, next) ==
  /\ \E j \in 0..MaxJitter :
       /\ clock + d + j <= MaxClock
       /\ clock' = clock + d + j
  /\ pc' = next
  /\ UNCHANGED <<dir, rlocal, dirExists, hstack, handlers, sigCount, sigSeen,
                 exitStatus, children, proc, last_ok_time, newest_mtime, now,
                 healthy, reason, deleted, folder_bytes, status, wsret, tmpFile,
                 finalFile, lastPub, detectedAt, tickDir, dryTicks>>

\* line 251
TickSleep ==
  /\ InMain /\ pc = "sleep"
  /\ Sleep(CHECK_EVERY_SECONDS, "poll")
  /\ tickPass' = None

BackoffSkipped ==
  /\ InMain /\ pc = "backoff"
  /\ Sleep(0, "relaunch")
  /\ UNCHANGED tickPass

\* line 267
Backoff ==
  /\ InMain /\ pc = "backoff"
  /\ Sleep(RESTART_BACKOFF_SECONDS, "relaunch")
  /\ UNCHANGED tickPass

PollStale(i) == TRUE

\* proc.poll() is not None
PollExited(i) == ~children[i].alive

\* line 254, the process has exited
PollDead ==
  /\ InMain /\ pc = "poll"
  /\ PollExited(proc)
  /\ children' = [children EXCEPT ![proc].polled = TRUE]
  /\ detectedAt' = Some(clock)
  /\ dryTicks' = IF folder_size_bytes(dir) > max_bytes THEN dryTicks + 1 ELSE 0
  /\ pc' = "tail"
  /\ UNCHANGED <<dir, rlocal, dirExists, clock, hstack, handlers, sigCount, sigSeen,
                 exitStatus, proc, last_ok_time, newest_mtime, now, healthy, reason,
                 deleted, folder_bytes, status, wsret, tmpFile, finalFile, lastPub,
                 tickDir, tickPass>>

\* line 254, the process is running
PollAlive ==
  /\ InMain /\ pc = "poll"
  /\ ~PollExited(proc)
  /\ pc' = "health"
  /\ UNCHANGED <<dir, rlocal, dirExists, clock, hstack, handlers, sigCount, sigSeen,
                 exitStatus, children, proc, last_ok_time, newest_mtime, now,
                 healthy, reason, deleted, folder_bytes, status, wsret, tmpFile,
                 finalFile, lastPub, detectedAt, tickDir, tickPass, dryTicks>>

\* tail_stderr: of the lines read, the last max_lines (their number)
tail_stderr(lines, max_lines) == IF lines > max_lines THEN max_lines ELSE lines

DeathStatusFatal ==
  /\ InMain /\ pc = "tail"
  /\ exitStatus' = Some(1)
  /\ UNCHANGED <<dir, rlocal, dirExists, clock, pc, hstack, handlers, sigCount,
                 sigSeen, children, proc, last_ok_time, newest_mtime, now, healthy,
                 reason, deleted, folder_bytes, status, wsret, tmpFile, finalFile,
                 lastPub, detectedAt, tickDir, tickPass, dryTicks>>

\* lines 255-265: proc.stderr.read() takes what is left in the pipe of the
\* exited process; the death record; the call of write_status
DeathStatus ==
  /\ InMain /\ pc = "tail"
  /\ status' = DeathRecord(tail_stderr(children[proc].pipe, 60))
  /\ children' = [children EXCEPT ![proc].pipe = 0]
  /\ wsret' = "backoff"
  /\ pc' = "ws_open"
  /\ UNCHANGED <<dir, rlocal, dirExists, clock, hstack, handlers, sigCount, sigSeen,
                 exitStatus, proc, last_ok_time, newest_mtime, now,
                 healthy, reason, deleted, folder_bytes, tmpFile, finalFile, lastPub,
                 detectedAt, tickDir, tickPass, dryTicks>>

FreshStrict(m, t) == m # None /\ (t - m[1]) < NO_PROGRESS_TIMEOUT_SECONDS

\* line 283
Fresh(m, t) == m # None /\ (t - m[1]) <= NO_PROGRESS_TIMEOUT_SECONDS

LastOkAlways(h, t, old) == t

\* lines 284-289: last_ok_time moves only on a healthy judgment
LastOkAfter(h, t, old) == IF h THEN t ELSE old

AfterHealthRestart(h) == IF h THEN "reclaim" ELSE "relaunch"

\* line 291 follows the judgment whatever it was
AfterHealth(h) == "reclaim"

\* lines 280-289
HealthCheck ==
  /\ InMain /\ pc = "health"
  /\ newest_mtime' = newest_recording_mtime(dir)
  /\ now' = clock
  /\ healthy' = Fresh(newest_mtime', now')
  /\ reason' = IF healthy' THEN "ok" ELSE "no_new_segments"
  /\ last_ok_time' = LastOkAfter(healthy', now', last_ok_time)
  /\ tickDir' = IF ~dirExists THEN "absent"
                ELSE IF dir = <<>> THEN "empty" ELSE "files"
  /\ pc' = AfterHealth(healthy')
  /\ UNCHANGED <<dir, rlocal, dirExists, clock, hstack, handlers, sigCount, sigSeen,
                 exitStatus, children, proc, deleted, folder_bytes, status, wsret,
                 tmpFile, finalFile, lastPub, detectedAt, tickPass, dryTicks>>

\* enforce_storage_cap run from its listing to its return with nothing else
\* touching the directory; failAt = k > 0 makes the k-th os.remove raise an
\* error other than FileNotFoundError
RECURSIVE CapLoop(_, _, _, _, _)
CapLoop(d, fs, t, n, failAt) ==
  IF ~LoopCond(t, fs) THEN [dir |-> d, deleted |-> n]
  ELSE IF Head(fs).name \notin Names(d) THEN CapLoop(d, Tail(fs), t, n, failAt)
  ELSE IF failAt = 1 THEN [dir |-> d, deleted |-> n]
  ELSE CapLoop(Without(d, Head(fs).name), Tail(fs), t - Head(fs).size, n + 1, failAt - 1)

enforce_storage_cap(d, failAt) ==
  CapLoop(d, list_recording_files(d), SumSizes(list_recording_files(d)), 0, failAt)

\* line 291
Reclaim ==
  /\ InMain /\ pc = "reclaim"
  /\ \E failAt \in 0..Len(dir) :
       LET r == enforce_storage_cap(dir, failAt) IN
         /\ dir' = r.dir
         /\ deleted' = r.deleted
         /\ tickPass' = Some([n |-> r.deleted,
                              kept |-> \/ newest_mtime = None
                                       \/ \E i \in 1..Len(r.dir) :
                                            r.dir[i].mtime = newest_mtime[1],
                              measured |-> FALSE])
  /\ dryTicks' = 0
  /\ pc' = "fsize"
  /\ UNCHANGED <<rlocal, dirExists, clock, hstack, handlers, sigCount, sigSeen,
                 exitStatus, children, proc, last_ok_time, newest_mtime, now,
                 healthy, reason, folder_bytes, status, wsret, tmpFile, finalFile,
                 lastPub, detectedAt, tickDir>>

\* line 292
FolderSize ==
  /\ InMain /\ pc = "fsize"
  /\ folder_bytes' = folder_size_bytes(dir)
  /\ tickPass' = IF tickPass = None THEN None
                ELSE Some([tickPass[1] EXCEPT !.measured = TRUE])
  /\ pc' = "metrics"
  /\ UNCHANGED <<dir, rlocal, dirExists, clock, hstack, handlers, sigCount, sigSeen,
                 exitStatus, children, proc, last_ok_time, newest_mtime, now,
                 healthy, reason, deleted, status, wsret, tmpFile, finalFile,
                 lastPub, detectedAt, tickDir, dryTicks>>

\* lines 295-321: psutil either answers or raises; the tick record; the
\* call of write_status
BuildStatus ==
  /\ InMain /\ pc = "metrics"
  /\ \/ status' = TickRecord(Some("cpu"), Some("rss"))
     \/ status' = TickRecord(None, None)
  /\ wsret' = "log"
  /\ pc' = "ws_open"
  /\ UNCHANGED <<dir, rlocal, dirExists, clock, hstack, handlers, sigCount, sigSeen,
                 exitStatus, children, proc, last_ok_time, newest_mtime, now,
                 healthy, reason, deleted, folder_bytes, tmpFile, finalFile, lastPub,
                 detectedAt, tickDir, tickPass, dryTicks>>

wsunch == <<dir, rlocal, dirExists, clock, hstack, handlers, sigCount, sigSeen,
            children, proc, last_ok_time, newest_mtime, now, healthy, reason,
            deleted, folder_bytes, status, wsret, detectedAt, tickDir,
            tickPass, dryTicks>>

\* an exception nobody catches ends main with status 1
Crash ==
  /\ exitStatus' = Some(1)
  /\ UNCHANGED <<pc, tmpFile, finalFile, lastPub>>

WsOpenFinal ==
  /\ InMain /\ pc = "ws_open"
  /\ IF dirExists
     THEN /\ finalFile' = Some([rec |-> status, st |-> "empty"])
          /\ pc' = "ws_dump"
          /\ UNCHANGED <<exitStatus, tmpFile, lastPub>>
     ELSE Crash
  /\ UNCHANGED wsunch

\* line 147: open(tmp, "w") creates or truncates status.json.tmp
WsOpen ==
  /\ InMain /\ pc = "ws_open"
  /\ IF dirExists
     THEN /\ tmpFile' = Some([rec |-> status, st |-> "empty"])
          /\ pc' = "ws_dump"
          /\ UNCHANGED <<exitStatus, finalFile, lastPub>>
     ELSE Crash
  /\ UNCHANGED wsunch

\* line 148: json.dump writes the text piece by piece; leaving the with
\* block completes the file
WsDump ==
  /\ InMain /\ pc = "ws_dump"
  /\ IF tmpFile = None
     THEN /\ pc' = "ws_replace"
          /\ UNCHANGED tmpFile
     ELSE IF tmpFile[1].st = "empty"
     THEN /\ tmpFile' = Some([tmpFile[1] EXCEPT !.st = "partial"])
          /\ UNCHANGED pc
     ELSE /\ tmpFile' = Some([tmpFile[1] EXCEPT !.st = "complete"])
          /\ pc' = "ws_replace"
  /\ UNCHANGED <<wsunch, exitStatus, finalFile, lastPub>>

\* line 149: os.replace(tmp, final)
WsReplace ==
  /\ InMain /\ pc = "ws_replace"
  /\ IF dirExists /\ tmpFile # None
     THEN /\ finalFile' = tmpFile
          /\ tmpFile' = None
          /\ lastPub' = Some(status)
          /\ pc' = wsret
          /\ UNCHANGED exitStatus
     ELSE Crash
  /\ UNCHANGED wsunch

\* lines 324-327
Log ==
  /\ InMain /\ pc = "log"
  /\ pc' = "sleep"
  /\ UNCHANGED <<dir, rlocal, dirExists, clock, hstack, handlers, sigCount, sigSeen,
                 exitStatus, children, proc, last_ok_time, newest_mtime, now,
                 healthy, reason, deleted, folder_bytes, status, wsret, tmpFile,
                 finalFile, lastPub, detectedAt, tickDir, tickPass, dryTicks>>

\* the state of the main variables in which main has not begun
MainIdleAt(c) ==
  /\ dirExists = TRUE
  /\ clock = c
  /\ pc = "start"
  /\ hstack = <<>>
  /\ handlers = {}
  /\ sigCount = 0
  /\ sigSeen = FALSE
  /\ exitStatus = None
  /\ children = <<>>
  /\ proc = 0
  /\ last_ok_time = 0
  /\ newest_mtime = None
  /\ now = 0
  /\ healthy = FALSE
  /\ reason = ""
  /\ deleted = 0
  /\ folder_bytes = 0
  /\ status = None
  /\ wsret = ""
  /\ tmpFile = None
  /\ finalFile = None
  /\ lastPub = None
  /\ detectedAt = None
  /\ tickDir = "files"
  /\ tickPass = None
  /\ dryTicks = 0

MainIdle == MainIdleAt(StartClock)

\* OUTPUT_DIR as a previous run left it: no file, or one old segment
InitDirs ==
  {<<>>} \cup {<<[name |-> 1, mtime |-> m, size |-> sz]>> : m \in 1..MaxMtime, sz \in SegmentSizes}

Init ==
  /\ dir \in InitDirs
  /\ rpc = "idle"
  /\ files = <<>>
  /\ total = 0
  /\ ndeleted = 0
  /\ listed = <<>>
  /\ removed = <<>>
  /\ err = FALSE
  /\ interf = 0
  /\ passNo = 0
  /\ MainIdle

Next ==
  \/ Start
  \/ PopenFork
  \/ PopenBind
  \/ SetLastOk
  \/ InstallHandler
  \/ TickSleep
  \/ PollDead
  \/ PollAlive
  \/ DeathStatus
  \/ Backoff
  \/ HealthCheck
  \/ Reclaim
  \/ FolderSize
  \/ BuildStatus
  \/ WsOpen
  \/ WsDump
  \/ WsReplace
  \/ Log
  \/ Signal
  \/ HTerminate
  \/ HWaitReturns
  \/ HWaitTimeout
  \/ HKill
  \/ HExit
  \/ ChildExit
  \/ ChildWrite
  \/ RemoveDir

Spec == Init /\ [][Next]_vars

\* ---------------------------------------------------------------------
\* SpecCapture and SpecLive: main with no termination signal and OUTPUT_DIR
\* left in place, started early enough for two exits and relaunches in a
\* row and a further tick to fit before MaxClock.  In SpecCapture ffmpeg
\* exits, writes segments and writes diagnostics as it likes.  SpecLive
\* leaves the segment writes out, which no step of the death path looks
\* at, and adds that the main thread, never held up by anything but its
\* own sleeps, eventually takes its next step; nothing is assumed of
\* ffmpeg.
LiveStartClock ==
  MaxClock - 2 * (CHECK_EVERY_SECONDS + RESTART_BACKOFF_SECONDS) - CHECK_EVERY_SECONDS

InitLive ==
  /\ dir \in InitDirs
  /\ rpc = "idle"
  /\ files = <<>>
  /\ total = 0
  /\ ndeleted = 0
  /\ listed = <<>>
  /\ removed = <<>>
  /\ err = FALSE
  /\ interf = 0
  /\ passNo = 0
  /\ MainIdleAt(LiveStartClock)

MainLive ==
  \/ Start
  \/ PopenForkLive
  \/ PopenBind
  \/ SetLastOk
  \/ InstallHandler
  \/ TickSleep
  \/ PollDead
  \/ PollAlive
  \/ DeathStatus
  \/ Backoff
  \/ HealthCheck
  \/ Reclaim
  \/ FolderSize
  \/ BuildStatus
  \/ WsOpen
  \/ WsDump
  \/ WsReplace
  \/ Log

NextCapture ==
  \/ MainLive
  \/ ChildExit
  \/ ChildWrite
  \/ ChildEmit

SpecCapture == InitLive /\ [][NextCapture]_vars

NextLive ==
  \/ MainLive
  \/ ChildExit
  \/ ChildEmit

SpecLive == InitLive /\ [][NextLive]_vars /\ WF_vars(MainLive)

\* drawn directories: up to MaxFiles files of any size and age in any
\* listing order, and the 2 GB x 5 and 2 GB x 6 directories of Scenario A
DrawnDirs ==
  UNION {[1..n -> [mtime : 1..MaxMtime, size : Sizes]] : n \in 0..MaxFiles}

ScenarioDirs ==
  {[i \in 1..n |-> [mtime |-> (i * 3) % 7, size |-> max_bytes \div 5]] : n \in {5, 6}}

Named(d) == [i \in 1..Len(d) |-> [name |-> i, mtime |-> d[i].mtime, size |-> d[i].size]]

InitReclaim ==
  /\ \E d \in DrawnDirs \cup ScenarioDirs : dir = Named(d)
  /\ rpc = "list"
  /\ files = <<>>
  /\ total = 0
  /\ ndeleted = 0
  /\ listed = <<>>
  /\ removed = <<>>
  /\ err = FALSE
  /\ interf = 0
  /\ passNo = 1
  /\ MainIdle

NextReclaim ==
  \/ CapList
  \/ CapRemoveOk
  \/ CapRemoveGone
  \/ CapRemoveError
  \/ CapReturn
  \/ CapCallAgain
  \/ OtherRemove
  \/ OtherAdd

SpecReclaim == InitReclaim /\ [][NextReclaim]_vars

\* ------------------------------------------------ claims on the reclaimer
\* the pass so far saw no delete error and no other actor touched the directory
CleanPass == ~err /\ interf = 0

RemovedFromDisk == Names(listed) \ Names(dir)

ListedIndex(n) == (CHOOSE i \in 1..Len(listed) : listed[i].name = n)

\* C1: a pass over a directory that exceeds max_bytes, with no delete error
\* and no other actor, removes files oldest first (a file is gone only if
\* every strictly older listed file is gone, and the removals happen in
\* ascending mtime order), ends with the remaining total <= max_bytes or with
\* no file left, and removes no more than needed (the last removed file put
\* back would exceed max_bytes).  Five equal files that sum to the cap lose
\* nothing; six of them lose exactly the oldest one.
C1_EvictionCorrect ==
  (CleanPass /\ rpc \in {"loop", "done"}) =>
    /\ SumSizes(listed) > max_bytes =>
         /\ \A i, j \in 1..Len(listed) :
              (listed[i].name \in RemovedFromDisk /\ listed[j].mtime < listed[i].mtime)
                => listed[j].name \in RemovedFromDisk
         /\ \A a, b \in 1..Len(removed) :
              a < b => listed[ListedIndex(removed[a])].mtime <= listed[ListedIndex(removed[b])].mtime
         /\ Names(dir) \subseteq Names(listed)
         /\ Len(removed) = Cardinality(RemovedFromDisk)
         /\ rpc = "done" =>
              /\ SumSizes(dir) <= max_bytes \/ dir = <<>>
              /\ removed # <<>>
              /\ SumSizes(dir) + listed[ListedIndex(removed[Len(removed)])].size > max_bytes
    /\ (/\ rpc = "done"
        /\ Len(listed) \in {5, 6}
        /\ \A i \in 1..Len(listed) : listed[i].size * 5 = max_bytes) =>
         /\ ndeleted = Len(listed) - 5
         /\ Cardinality(RemovedFromDisk) = Len(listed) - 5
         /\ \A n \in RemovedFromDisk :
              \A i \in 1..Len(listed) : listed[ListedIndex(n)].mtime <= listed[i].mtime

\* C1 witness: a clean pass that had to remove two files and left one
C1_Witness ==
  /\ CleanPass /\ rpc = "done" /\ passNo = 1
  /\ Len(removed) = 2 /\ dir # <<>>
  /\ listed[1].name # 1

\* C8: a pass whose listing totals <= max_bytes deletes nothing and returns
\* 0; so does a second call right after a pass that saw no delete error,
\* the directory being otherwise unchanged.
C8_ReclaimIdempotent ==
  /\ (rpc \in {"loop", "done"} /\ SumSizes(listed) <= max_bytes) =>
       /\ ndeleted = 0
       /\ removed = <<>>
       /\ interf = 0 => Names(dir) = Names(listed)
  /\ (rpc = "done" /\ passNo >= 2 /\ CleanPass) =>
       /\ ndeleted = 0
       /\ Names(dir) = Names(listed)

\* C8 witness: the second call returned after a first call that deleted
\* file 1 and left others
C8_Witness ==
  /\ rpc = "done" /\ passNo = 2 /\ CleanPass
  /\ 1 \notin Names(dir) /\ dir # <<>>

\* ------------------------------------------------ claims on the supervisor
Launches == Len(children') > Len(children)
Relaunches == Launches /\ children # <<>>

\* C2: a new subprocess is launched after a detected exit only once the
\* record {recording: false, reason: ffmpeg_exited} has been published for
\* that exit, and not before RESTART_BACKOFF_SECONDS have passed since the
\* exit was detected.
C2_BackoffAfterDeathReport ==
  [][Relaunches =>
       /\ detectedAt # None
       /\ clock >= detectedAt[1] + RESTART_BACKOFF_SECONDS
       /\ lastPub # None
       /\ lastPub[1].recording = FALSE
       /\ lastPub[1].reason = "ffmpeg_exited"
       /\ lastPub[1].timestamp >= detectedAt[1]]_vars

\* C2 witness: the second subprocess runs and main is back in its loop
C2_Witness ==
  /\ Len(children) = 2 /\ proc = 2 /\ pc = "sleep" /\ Running
  /\ lastPub # None /\ lastPub[1].reason = "ffmpeg_exited"

Complete(f) == f # None /\ f[1].st = "complete"

\* C3: status.json never holds a partly written record, whatever step
\* write_status is at and whenever a signal interrupts it: each change of
\* the file puts the whole record being written in place of the whole
\* previous one (or the file goes with its directory).
C3_AtomicPublish ==
  /\ [](finalFile # None => Complete(finalFile))
  /\ [][finalFile' # finalFile =>
          \/ finalFile' = None
          \/ /\ Complete(finalFile')
             /\ finalFile'[1].rec = status
             /\ finalFile = None \/ Complete(finalFile)]_vars

\* C3 witness: a signal handler runs while status.json.tmp is half written
\* and status.json holds the previous record
C3_Witness ==
  /\ hstack # <<>>
  /\ pc = "ws_dump"
  /\ tmpFile # None /\ tmpFile[1].st = "partial"
  /\ Complete(finalFile) /\ finalFile[1].rec # tmpFile[1].rec

\* C4: at most one launched subprocess is alive, and a launch after the
\* first happens only when poll() has reported the exit of the process
\* bound to proc, which is the last one launched.
C4_SingleSubprocess ==
  /\ [](Cardinality(Alive) <= 1)
  /\ [][Relaunches =>
          /\ proc = Len(children)
          /\ children[proc].polled
          /\ ~children[proc].alive]_vars

\* C4 witness: the second subprocess is alive after the first was polled dead
C4_Witness ==
  /\ Len(children) = 2 /\ children[2].alive /\ children[1].polled

\* C5 (as claimed): a termination signal delivered at any point after the
\* first launch makes the supervisor run the shutdown path and exit with
\* status 0.
C5_SignalRunsShutdown ==
  (sigSeen /\ ~Running) => exitStatus = Some(0)

\* C6 (as claimed): once the supervisor has exited through the shutdown
\* path, no subprocess it launched is still running without having been
\* sent terminate or kill.
C6_ShutdownReachesCurrent ==
  exitStatus = Some(0) =>
    \A i \in Alive : children[i].term \/ children[i].kill

Published == pc = "log" /\ lastPub # None

TickJudgedRight ==
  Published =>
    LET r == lastPub[1]
        fresh == /\ r.newest_segment_mtime # None
                 /\ now - r.newest_segment_mtime[1] <= NO_PROGRESS_TIMEOUT_SECONDS
    IN /\ r.recording = fresh
       /\ r.reason = IF fresh THEN "ok" ELSE "no_new_segments"

EmptyDirReport ==
  (Published /\ tickDir = "empty") =>
    LET r == lastPub[1]
    IN /\ r.folder_size_bytes = 0
       /\ r.newest_segment_mtime = None
       /\ r.recording = FALSE
       /\ r.reason = "no_new_segments"

\* a tick with a live subprocess ended in an uncaught exception
TickFailed == exitStatus = Some(1) /\ wsret = "log"

\* C7 (as claimed): the tick record is healthy/ok exactly when a newest
\* segment exists and is at most NO_PROGRESS_TIMEOUT_SECONDS old, else
\* unhealthy/no_new_segments; and a tick over an empty or absent directory
\* does not fail and publishes size 0, no newest timestamp, unhealthy,
\* no_new_segments.
C7_FreshnessAsClaimed ==
  /\ TickJudgedRight
  /\ EmptyDirReport
  /\ TickFailed => tickDir \notin {"empty", "absent"}

\* C7 (amended): the same, except that only the tick over an empty
\* directory that exists is promised not to fail and to publish.
C7_Freshness ==
  /\ TickJudgedRight
  /\ EmptyDirReport
  /\ TickFailed => tickDir # "empty"

\* C7 witness: a tick published healthy for a newest segment exactly
\* NO_PROGRESS_TIMEOUT_SECONDS old
C7_Witness ==
  /\ Published
  /\ lastPub[1].recording
  /\ newest_mtime # None
  /\ now - newest_mtime[1] = NO_PROGRESS_TIMEOUT_SECONDS

TickPublishes == pc = "ws_replace" /\ pc' = "log"

Stale(f) == f # None /\ f[1].rec.reason = "no_new_segments"

\* C9: a tick that publishes no_new_segments publishes recording = false,
\* and when the record it replaces is the no_new_segments record of the
\* tick before, its seconds_since_last_ok is strictly greater.
C9_StalenessGrows ==
  [][(TickPublishes /\ Stale(finalFile')) =>
       /\ finalFile'[1].rec.recording = FALSE
       /\ Stale(finalFile) =>
            finalFile'[1].rec.seconds_since_last_ok
              > finalFile[1].rec.seconds_since_last_ok]_vars

\* C9 witness: the second consecutive stale tick of the first subprocess
\* has published
C9_Witness ==
  /\ Published
  /\ Len(children) = 1
  /\ Stale(finalFile)
  /\ finalFile[1].rec.seconds_since_last_ok >= 2 * CHECK_EVERY_SECONDS

Signalled(i) == <<children[i].term, children[i].kill>>

\* C10: a subprocess is launched only by the initial Popen and by the Popen
\* that follows a poll which reported the exit; terminate and kill are sent
\* only by the shutdown handler; no step of the tick itself, stale or not,
\* launches or signals a subprocess.
C10_NoRestartOnStaleness ==
  [][/\ Launches =>
          \/ pc = "popen" /\ children = <<>>
          \/ pc = "relaunch" /\ detectedAt # None /\ children[proc].polled
     /\ (\E i \in 1..Len(children) : Signalled(i)' # Signalled(i)) => hstack # <<>>
     /\ (hstack = <<>> /\ pc \in {"health", "reclaim", "fsize", "metrics", "log"}) =>
          /\ Len(children') = Len(children)
          /\ \A i \in 1..Len(children) : Signalled(i)' = Signalled(i)
          /\ proc' = proc]_vars

\* C10 witness: a second stale tick in a row with the first subprocess
\* still alive and never signalled
C10_Witness ==
  /\ pc = "log" /\ hstack = <<>> /\ Running
  /\ reason = "no_new_segments"
  /\ now - last_ok_time >= 2 * CHECK_EVERY_SECONDS
  /\ Len(children) = 1
  /\ children[1].alive /\ ~children[1].term /\ ~children[1].kill

\* the fields of the StatusRecord under the names the tick record gives them
\* (healthy, reason, observedAt, folderSizeBytes, newestSegmentTimestamp,
\* secondsSinceLastHealthy, deletedThisTick, processId, cpuPercent, memoryMb)
StatusRecordFields ==
  {"recording", "reason", "timestamp", "folder_size_bytes", "newest_segment_mtime",
   "seconds_since_last_ok", "deleted_files_this_check", "ffmpeg_pid",
   "ffmpeg_cpu_percent", "ffmpeg_mem_mb"}

\* C11 (as claimed): every record found in status.json, the tick record and
\* the death record alike, carries every StatusRecord field (None for a
\* metric that could not be obtained, never a missing key), and its reason
\* is ok, ffmpeg_exited or no_new_segments.
C11_RecordComplete ==
  finalFile # None =>
    /\ StatusRecordFields \subseteq DOMAIN finalFile[1].rec
    /\ finalFile[1].rec.reason \in {"ok", "ffmpeg_exited", "no_new_segments"}

\* C12 (as claimed): from the launch of the first subprocess on, as long as
\* OUTPUT_DIR exists, status.json exists.
C12_RecordExists ==
  (children # <<>> /\ dirExists) => finalFile # None

\* a record has just been published: write_status has returned to the tick
\* (pc = "log") or to the death path (pc = "backoff")
JustPublished == pc \in {"log", "backoff"} /\ lastPub # None

\* C14 (as claimed): every publication is preceded in its tick by the
\* tick's own call of enforce_storage_cap; the published deletion count is
\* that call's, the published folder size was read after it, the published
\* newest-segment timestamp is that of a segment the call left on disk, and
\* the verdict is the judgment of that timestamp.
C14_PublicationConsistent ==
  JustPublished =>
    /\ tickPass # None
    /\ tickPass[1].measured
    /\ lastPub[1].deleted_files_this_check = tickPass[1].n
    /\ lastPub[1].folder_size_bytes = folder_bytes
    /\ tickPass[1].kept
    /\ lastPub[1].recording = Fresh(lastPub[1].newest_segment_mtime, now)

\* the step of a tick that judges the newest segment fresh
HealthyJudgment == pc = "health" /\ healthy' /\ last_ok_time' = now'

\* a tick record takes the place of a tick record
TickAfterTick ==
  /\ TickPublishes
  /\ finalFile # None
  /\ "seconds_since_last_ok" \in DOMAIN finalFile[1].rec

SinceLastOkGrows ==
  (TickAfterTick /\ ~finalFile'[1].rec.recording) =>
    finalFile'[1].rec.seconds_since_last_ok >= finalFile[1].rec.seconds_since_last_ok

\* C16 (as claimed): once main is in its loop, last_ok_time changes only in
\* the health check of a tick that judges healthy, to that tick's now; the
\* unhealthy tick, the death report, the backoff and the relaunch leave it
\* alone; tick after tick seconds_since_last_ok does not decrease until the
\* next healthy judgment.
C16_OnlyHealthyTickMoves ==
  [][/\ (last_ok_time' # last_ok_time /\ pc # "first_ok") => HealthyJudgment
     /\ SinceLastOkGrows]_vars

\* C16 (amended): last_ok_time changes only in the health check of a tick
\* that judges healthy, to that tick's now, and in the assignment that
\* follows each Popen (lines 232 and 276), to the time of the launch; the
\* unhealthy tick, the death report and the backoff leave it alone; between
\* two tick records with no relaunch in between seconds_since_last_ok does
\* not decrease until the next healthy judgment.
C16_LastOkFrame ==
  [][/\ last_ok_time' # last_ok_time =>
          \/ HealthyJudgment
          \/ pc \in {"first_ok", "reset_ok"} /\ last_ok_time' = clock
     /\ (pc = "health" /\ pc' # pc /\ healthy') => last_ok_time' = now'
     /\ (pc \in {"first_ok", "reset_ok"} /\ pc' # pc) => last_ok_time' = clock
     /\ SinceLastOkGrows]_vars

\* C16 witness: the relaunch has moved last_ok_time to the time of the
\* second launch
C16_Witness ==
  /\ pc = "sleep" /\ Len(children) = 2 /\ proc = 2
  /\ last_ok_time = clock /\ last_ok_time >= StartClock + CHECK_EVERY_SECONDS

\* ------------------------------------- more claims on the reclaimer
\* the loop took the oldest file left in files and found it gone
GoneStep ==
  /\ rpc = "loop" /\ files # <<>>
  /\ files' = Tail(files)
  /\ Head(files).name \notin Names(dir)

\* the loop took the oldest file left in files, which was on disk and
\* still is: os.remove failed
ErrorStep ==
  /\ rpc = "loop" /\ files # <<>>
  /\ files' = Tail(files)
  /\ Head(files).name \in Names(dir)
  /\ dir' = dir

\* C15: a delete that finds the file gone changes nothing and the pass goes
\* on with the rest of the listing, oldest first; a delete that fails
\* otherwise ends the pass at that step; after the pass has ended the
\* reclaimer removes nothing more and its count stays, until the next call;
\* the files a pass removed stay off the disk; the count is the number of
\* files the pass removed; the supervisor keeps running; the next call
\* starts from a fresh listing of the directory with a count of 0.
C15_FailurePolicy ==
  /\ [](/\ rpc \in {"loop", "done"} => ndeleted = Len(removed)
        /\ \A k \in 1..Len(removed) : removed[k] \notin Names(dir)
        /\ Running)
  /\ [][/\ GoneStep =>
             /\ rpc' = "loop"
             /\ removed' = removed /\ ndeleted' = ndeleted /\ dir' = dir
        /\ ErrorStep =>
             /\ rpc' = "done"
             /\ removed' = removed /\ ndeleted' = ndeleted
        /\ rpc = "done" => (removed' = removed /\ ndeleted' = ndeleted)
        /\ rpc = "list" =>
             /\ files' = list_recording_files(dir)
             /\ ndeleted' = 0 /\ removed' = <<>>]_vars

\* C15 witness: a pass over three files skipped the first (gone), removed
\* the second and was ended by an error on the third
C15_Witness ==
  /\ rpc = "done" /\ passNo = 1 /\ err /\ interf = 1
  /\ Len(listed) = 3 /\ Len(removed) = 1 /\ files = <<>>
  /\ Names(dir) = {listed[3].name}

\* the total size of the listed files that are on disk
RECURSIVE ListedOnDisk(_, _)
ListedOnDisk(ls, d) ==
  IF ls = <<>> THEN 0
  ELSE (IF ls[1].name \in Names(d) THEN ls[1].size ELSE 0) + ListedOnDisk(Tail(ls), d)

\* every listed file that is off the disk has been taken by the loop
LoopCaughtUp == \A i \in 1..Len(files) : files[i].name \in Names(dir)

\* C18 (as claimed): once the loop has come to every file another actor
\* removed, total is the total size of the listed files still on disk, and
\* the pass then removes a file only while the listed files on disk exceed
\* max_bytes.
C18_NoExtraDeletion ==
  /\ []((rpc = "loop" /\ ~err /\ LoopCaughtUp) => total = ListedOnDisk(listed, dir))
  /\ [][(rpc = "loop" /\ LoopCaughtUp /\ removed' # removed) =>
          ListedOnDisk(listed, dir) > max_bytes]_vars

\* ------------------------------------------- claims on the row of restarts
\* after a detected exit there is room, before MaxClock, for the backoff,
\* however long it overshoots, and the sleep of the next tick
RoomToRestart ==
  clock + RESTART_BACKOFF_SECONDS + MaxJitter + CHECK_EVERY_SECONDS <= MaxClock

\* C13: with no termination signal and OUTPUT_DIR in place, the supervisor
\* never exits, and every detected exit of the n-th subprocess is followed
\* by the launch of another one and by the poll of a further tick, exit
\* after exit.
C13_DeathNeverFatal ==
  /\ []Running
  /\ \A n \in 1..MaxLaunch :
       (pc = "tail" /\ Len(children) = n /\ RoomToRestart)
         ~> (Len(children) > n /\ pc = "poll")

\* C13 witness: the tick after the second exit and relaunch in a row
C13_Witness ==
  /\ pc = "poll" /\ Len(children) = 3 /\ proc = 3 /\ Running
  /\ \A i \in 1..2 : children[i].polled

\* --------------------------------------- claims on ffmpeg and its output
\* C17 (as claimed, within the ticks that fit before MaxClock): whatever
\* ffmpeg does, a tick that finds the directory above max_bytes is followed
\* by a call of enforce_storage_cap before a second tick in a row finds it
\* so without one.
C17_ReclaimEventually == dryTicks < 2

\* C19 (as claimed): no tick of the supervisor runs from its poll to the
\* publication of no_new_segments over a live subprocess that has been
\* stuck since before the tick in a write of diagnostics to a full stderr
\* pipe, which main reads only once poll() has reported the exit.
C19_NeverStalled ==
  ~(/\ pc = "log" /\ Running
    /\ children[proc].alive /\ children[proc].blocked
    /\ children[proc].since < now
    /\ reason = "no_new_segments")

====
